---- MODULE Spec2Model ----
(***************************************************************************)
(* The rule no-dynamic-class-names (lib/rules/no-dynamic-class-names.ts):  *)
(* the prop collector withProps, the watched-attribute gate and the        *)
(* recursive classifier reportDynamicIn*.                                  *)
(*                                                                         *)
(* A syntax node is a record [type, name, flags, kids]:                    *)
(*   type   the ESTree / vue-eslint-parser node type,                      *)
(*   name   Identifier.name, or the value of a Literal,                    *)
(*   flags  "string"/"number" (typeof Literal.value), and the Property /   *)
(*          MemberExpression booleans "computed", "shorthand", "method",   *)
(*   kids   the child nodes in source order:                               *)
(*            ArrayExpression        elements ("null" for an elision)      *)
(*            ObjectExpression       properties                            *)
(*            Property               <<key, value>>                        *)
(*            SpreadElement          <<argument>>                          *)
(*            ConditionalExpression  <<test, consequent, alternate>>       *)
(*            MemberExpression       <<object, property>>                  *)
(* A node of the bound expression is located by its path: the sequence of  *)
(* kids indices leading to it from the root. A report is the path of the   *)
(* reported node (context.report's node / loc).                            *)
(***************************************************************************)
EXTENDS Integers, Sequences, FiniteSets, TLC

VARIABLES
  names,             \* create: the watched attribute names (MatchNameList)
  allowConditional,  \* create: context.options[0].allowConditional || false
  allowProps,        \* withProps: context.options[0].allowProps || false
  propNames,         \* withProps: the one propNames array of the pass (AllowedNameSet)
  declared,          \* per component, the names its callbacks have pushed
  attribute,         \* the node given to the VAttribute handler last run
  reports            \* the reports that handler run emitted, in order

vars == <<names, allowConditional, allowProps, propNames, declared, attribute, reports>>

----------------------------------------------------------------------------
(* Bounds *)

\* nesting depth of the generated bound expressions
MaxDepth == 2

\* number of property names the component-enter callbacks may append
MaxProps == 2

----------------------------------------------------------------------------
(* Syntax nodes *)

Node(type, name, flags, kids) == [type |-> type, name |-> name, flags |-> flags, kids |-> kids]

Identifier(name) == Node("Identifier", name, {}, <<>>)

StringLiteral(value) == Node("Literal", value, {"string"}, <<>>)

NumberLiteral(value) == Node("Literal", value, {"number"}, <<>>)

CallExpression == Node("CallExpression", "", {}, <<>>)

FunctionExpression == Node("FunctionExpression", "", {}, <<>>)

NullElement == Node("null", "", {}, <<>>)

MemberExpression(object, property, flags) == Node("MemberExpression", "", flags, <<object, property>>)

ArrayExpression(elements) == Node("ArrayExpression", "", {}, elements)

ObjectExpression(properties) == Node("ObjectExpression", "", {}, properties)

ConditionalExpression(test, consequent, alternate) == Node("ConditionalExpression", "", {}, <<test, consequent, alternate>>)

SpreadElement(argument) == Node("SpreadElement", "", {}, <<argument>>)

Property(key, value, flags) == Node("Property", "", flags, <<key, value>>)

\* the node at path p below node n
RECURSIVE NodeAt(_, _)
NodeAt(n, p) == IF p = <<>> THEN n ELSE NodeAt(n.kids[Head(p)], Tail(p))

\* every path of node n, the root's <<>> included
RECURSIVE Paths(_)
Paths(n) == {<<>>} \cup UNION {{<<i>> \o p : p \in Paths(n.kids[i])} : i \in DOMAIN n.kids}

RECURSIVE Flatten(_)
Flatten(ss) == IF ss = <<>> THEN <<>> ELSE Head(ss) \o Flatten(Tail(ss))

Includes(list, item) == \E i \in DOMAIN list : list[i] = item

----------------------------------------------------------------------------
(* The classifier. Each operator returns the reports its function emits,   *)
(* in emission order; loc is the path of the node it is given.             *)

RECURSIVE reportDynamicInSpread(_, _, _)
RECURSIVE reportDynamicInObject(_, _, _)
RECURSIVE reportDynamicInArray(_, _, _)
RECURSIVE reportDynamicInConditional(_, _, _)
RECURSIVE reportDynamicInExpression(_, _, _)

report(loc) == <<loc>>

isStringLiteral(node) == node.type = "Literal" /\ "string" \in node.flags

\* variant: the argument of a spread is classified like any other value
reportDynamicInSpread_ClassifiesArgument(spread, allowedProps, loc) ==
  LET argument == spread.kids[1]
  IN IF argument.type = "ArrayExpression"
       THEN reportDynamicInArray(argument, allowedProps, loc \o <<1>>)
     ELSE IF argument.type = "ObjectExpression"
       THEN reportDynamicInObject(argument, allowedProps, loc \o <<1>>)
     ELSE reportDynamicInExpression(argument, allowedProps, loc \o <<1>>)

reportDynamicInSpread(spread, allowedProps, loc) ==
  LET argument == spread.kids[1]
  IN IF argument.type = "ArrayExpression"
       THEN reportDynamicInArray(argument, allowedProps, loc \o <<1>>)
     ELSE IF argument.type = "ObjectExpression"
       THEN reportDynamicInObject(argument, allowedProps, loc \o <<1>>)
     ELSE report(loc \o <<1>>)

\* variant: the value of a property with a static key is classified too
reportDynamicInObject_InspectsValues(object, allowedProps, loc) ==
  LET ofProperty(i) ==
        LET property == object.kids[i]
            value == property.kids[2]
        IN IF property.type = "SpreadElement"
             THEN reportDynamicInSpread(property, allowedProps, loc \o <<i>>)
           ELSE IF "shorthand" \in property.flags THEN <<>>
           ELSE IF "computed" \in property.flags \/ "method" \in property.flags
             THEN report(loc \o <<i>>)
           ELSE IF value.type = "Identifier" THEN <<>>
           ELSE reportDynamicInExpression(value, allowedProps, loc \o <<i, 2>>)
  IN Flatten([i \in DOMAIN object.kids |-> ofProperty(i)])

\* variant: an identifier value below a non-static key is classified like
\* any other value
reportDynamicInObject_InspectsIdentifiers(object, allowedProps, loc) ==
  LET ofProperty(i) ==
        LET property == object.kids[i]
            key == property.kids[1]
            value == property.kids[2]
        IN IF property.type = "SpreadElement"
             THEN reportDynamicInSpread(property, allowedProps, loc \o <<i>>)
           ELSE IF "shorthand" \in property.flags THEN <<>>
           ELSE IF "computed" \in property.flags \/ "method" \in property.flags
             THEN report(loc \o <<i>>)
           ELSE IF key.type = "Identifier" THEN <<>>
           ELSE IF isStringLiteral(key) THEN <<>>
           ELSE reportDynamicInExpression(value, allowedProps, loc \o <<i, 2>>)
  IN Flatten([i \in DOMAIN object.kids |-> ofProperty(i)])

reportDynamicInObject(object, allowedProps, loc) ==
  LET ofProperty(i) ==
        LET property == object.kids[i]
            key == property.kids[1]
            value == property.kids[2]
        IN IF property.type = "SpreadElement"
             THEN reportDynamicInSpread(property, allowedProps, loc \o <<i>>)
           ELSE IF "shorthand" \in property.flags THEN <<>>
           ELSE IF "computed" \in property.flags \/ "method" \in property.flags
             THEN report(loc \o <<i>>)
           ELSE IF key.type = "Identifier" THEN <<>>
           ELSE IF isStringLiteral(key) THEN <<>>
           ELSE IF value.type = "Identifier" THEN <<>>
           ELSE reportDynamicInExpression(value, allowedProps, loc \o <<i, 2>>)
  IN Flatten([i \in DOMAIN object.kids |-> ofProperty(i)])

\* variant: identifier elements are skipped, as identifier property values are
reportDynamicInArray_SkipsIdentifiers(array, allowedProps, loc) ==
  LET ofElement(i) ==
        LET element == array.kids[i]
        IN IF element.type = "null" THEN <<>>
           ELSE IF element.type = "SpreadElement"
             THEN reportDynamicInSpread(element, allowedProps, loc \o <<i>>)
           ELSE IF element.type = "Identifier" THEN <<>>
           ELSE reportDynamicInExpression(element, allowedProps, loc \o <<i>>)
  IN Flatten([i \in DOMAIN array.kids |-> ofElement(i)])

reportDynamicInArray(array, allowedProps, loc) ==
  LET ofElement(i) ==
        LET element == array.kids[i]
        IN IF element.type = "null" THEN <<>>
           ELSE IF element.type = "SpreadElement"
             THEN reportDynamicInSpread(element, allowedProps, loc \o <<i>>)
           ELSE reportDynamicInExpression(element, allowedProps, loc \o <<i>>)
  IN Flatten([i \in DOMAIN array.kids |-> ofElement(i)])

\* variant: the test is classified as well
reportDynamicInConditional_InspectsTest(conditional, allowedProps, loc) ==
  reportDynamicInExpression(conditional.kids[1], allowedProps, loc \o <<1>>)
    \o reportDynamicInExpression(conditional.kids[3], allowedProps, loc \o <<3>>)
    \o reportDynamicInExpression(conditional.kids[2], allowedProps, loc \o <<2>>)

\* variant: the consequent is classified before the alternate
reportDynamicInConditional_ConsequentFirst(conditional, allowedProps, loc) ==
  reportDynamicInExpression(conditional.kids[2], allowedProps, loc \o <<2>>)
    \o reportDynamicInExpression(conditional.kids[3], allowedProps, loc \o <<3>>)

reportDynamicInConditional(conditional, allowedProps, loc) ==
  reportDynamicInExpression(conditional.kids[3], allowedProps, loc \o <<3>>)
    \o reportDynamicInExpression(conditional.kids[2], allowedProps, loc \o <<2>>)

\* variant: a conditional is descended into whatever allowConditional is
reportDynamicInExpression_DescendsAlways(expression, allowedProps, loc) ==
  IF expression.type = "null" THEN <<>>
  ELSE IF expression.type = "Literal" /\ "string" \in expression.flags THEN <<>>
  ELSE IF expression.type = "Identifier" /\ Includes(allowedProps, expression.name) THEN <<>>
  ELSE IF /\ expression.type = "MemberExpression"
          /\ expression.kids[1].type = "Identifier"
          /\ expression.kids[1].name \in {"$props", "$attrs"}
          /\ expression.kids[2].type = "Identifier"
          /\ Includes(allowedProps, expression.kids[2].name)
    THEN <<>>
  ELSE IF expression.type = "ObjectExpression"
    THEN reportDynamicInObject(expression, allowedProps, loc)
  ELSE IF expression.type = "ArrayExpression"
    THEN reportDynamicInArray(expression, allowedProps, loc)
  ELSE IF expression.type = "ConditionalExpression"
    THEN reportDynamicInConditional(expression, allowedProps, loc)
  ELSE report(loc)

\* variant: the receiver of a member access is not compared with $props / $attrs
reportDynamicInExpression_AnyReceiver(expression, allowedProps, loc) ==
  IF expression.type = "null" THEN <<>>
  ELSE IF expression.type = "Literal" /\ "string" \in expression.flags THEN <<>>
  ELSE IF expression.type = "Identifier" /\ Includes(allowedProps, expression.name) THEN <<>>
  ELSE IF /\ expression.type = "MemberExpression"
          /\ expression.kids[1].type = "Identifier"
          /\ expression.kids[2].type = "Identifier"
          /\ Includes(allowedProps, expression.kids[2].name)
    THEN <<>>
  ELSE IF expression.type = "ObjectExpression"
    THEN reportDynamicInObject(expression, allowedProps, loc)
  ELSE IF expression.type = "ArrayExpression"
    THEN reportDynamicInArray(expression, allowedProps, loc)
  ELSE IF expression.type = "ConditionalExpression" /\ allowConditional
    THEN reportDynamicInConditional(expression, allowedProps, loc)
  ELSE report(loc)

reportDynamicInExpression(expression, allowedProps, loc) ==
  IF expression.type = "null" THEN <<>>
  ELSE IF expression.type = "Literal" /\ "string" \in expression.flags THEN <<>>
  ELSE IF expression.type = "Identifier" /\ Includes(allowedProps, expression.name) THEN <<>>
  ELSE IF /\ expression.type = "MemberExpression"
          /\ expression.kids[1].type = "Identifier"
          /\ expression.kids[1].name \in {"$props", "$attrs"}
          /\ expression.kids[2].type = "Identifier"
          /\ Includes(allowedProps, expression.kids[2].name)
    THEN <<>>
  ELSE IF expression.type = "ObjectExpression"
    THEN reportDynamicInObject(expression, allowedProps, loc)
  ELSE IF expression.type = "ArrayExpression"
    THEN reportDynamicInArray(expression, allowedProps, loc)
  ELSE IF expression.type = "ConditionalExpression" /\ allowConditional
    THEN reportDynamicInConditional(expression, allowedProps, loc)
  ELSE report(loc)

----------------------------------------------------------------------------
(* Attributes. A value that may be null (string | null) is a sequence of   *)
(* length at most one: <<>> is null.                                       *)

Null == <<>>

\* VAttribute | VDirective. key: attribute.key.name of a plain attribute, or
\* attribute.key.name.name of a directive; argument: attribute.key.argument
\* (type "null" when absent); value: attribute.value (type "null" when absent);
\* expression: attribute.value.expression (NullElement when absent);
\* scope: the component whose template holds the attribute.
VAttr(directive, key, argument, valueType, expression, scope) == [directive |-> directive, key |-> key, argument |-> argument, value |-> [type |-> valueType, expression |-> expression], scope |-> scope]

NoArgument == [type |-> "null", name |-> ""]

VIdentifier(name) == [type |-> "VIdentifier", name |-> name]

VExpressionContainer == [type |-> "VExpressionContainer", name |-> ""]

\* no VAttribute handler has run since the last component-enter callback
NoAttribute == VAttr(FALSE, "", NoArgument, "null", NullElement, "")

getName(attr) ==
  IF ~attr.directive THEN <<attr.key>>
  ELSE IF attr.key = "bind"
    THEN IF attr.argument.type = "VIdentifier" /\ attr.argument.name # ""
           THEN <<attr.argument.name>>
           ELSE Null
  ELSE Null

\* regexpUtils.isRegExp / toRegExp(...).test: the pattern strings of the
\* configurations below and the attribute names each matches
isRegExp(string) == string \in {"/^cls/"}

RegExpTest(pattern, item) == pattern = "/^cls/" /\ item \in {"cls", "clsName"}

isSatisfyList(list, item) ==
  \/ Includes(list, item)
  \/ \E i \in DOMAIN list : isRegExp(list[i]) /\ RegExpTest(list[i], item)

reportDynamic(attr, allowedProps) ==
  IF attr.value.type = "null" THEN <<>>
  ELSE IF attr.value.type = "VLiteral" THEN <<>>
  ELSE IF attr.value.expression.type = "null" THEN <<>>
  ELSE reportDynamicInExpression(attr.value.expression, allowedProps, <<>>)

\* create, lines 115-118: the watched names of a configuration
createNames(classAttrNames) ==
  IF Includes(classAttrNames, "class") THEN classAttrNames ELSE Append(classAttrNames, "class")

\* props.map((p) => p.propName).filter(isString)
RECURSIVE stringPropNames(_)
stringPropNames(props) ==
  IF props = <<>> THEN <<>>
  ELSE (IF Head(props).propName # Null THEN Head(props).propName ELSE <<>>) \o stringPropNames(Tail(props))

----------------------------------------------------------------------------
(* Inputs *)

Scopes == {"A", "B"}

\* context.options[0].classAttrNames (uniqueItems), the default [] included
ClassAttrNameLists == {<<>>, <<"class">>, <<"cls">>, <<"/^cls/", "klass">>}

\* one declared prop: p.propName is a string, or null for a computed key
ComponentProps == {[propName |-> <<"active">>], [propName |-> <<"cond">>], [propName |-> Null]}

\* the props of one defineProps() call or of one options object
PropLists == {<<>>} \cup {<<p>> : p \in ComponentProps} \cup {<<p, q>> : p, q \in ComponentProps}

Member(objectName, propertyName) == MemberExpression(Identifier(objectName), Identifier(propertyName), {})

\* the leaves of the generated expressions
Leaves ==
  { StringLiteral("active"), NumberLiteral("1"), CallExpression,
    Identifier("class"), Identifier("active"), Identifier("cond"),
    Member("$props", "active"), Member("$attrs", "class"), Member("vm", "class"),
    MemberExpression(Member("vm", "$props"), Identifier("class"), {}),
    MemberExpression(Identifier("$props"), StringLiteral("class"), {"computed"}),
    MemberExpression(Identifier("$props"), Identifier("active"), {"computed"}) }

MethodProperty == Property(Identifier("m"), FunctionExpression, {"method"})

ShorthandProperty == Property(Identifier("cond"), Identifier("cond"), {"shorthand"})

\* the expressions that hold e one level down
Wrap(e) ==
  { ArrayExpression(<<e>>),
    ArrayExpression(<<Identifier("cond"), e>>),
    ArrayExpression(<<e, Identifier("cond")>>),
    ArrayExpression(<<NullElement, e>>),
    ArrayExpression(<<SpreadElement(e)>>),
    ConditionalExpression(Identifier("cond"), e, StringLiteral("")),
    ConditionalExpression(Identifier("active"), e, StringLiteral("")),
    ConditionalExpression(Identifier("cond"), StringLiteral(""), e),
    ConditionalExpression(Identifier("cond"), e, Identifier("cond")),
    ConditionalExpression(Identifier("cond"), Identifier("cond"), e),
    ObjectExpression(<<Property(Identifier("k"), e, {})>>),
    ObjectExpression(<<Property(StringLiteral("k"), e, {})>>),
    ObjectExpression(<<Property(NumberLiteral("1"), e, {})>>),
    ObjectExpression(<<Property(Identifier("k"), e, {"computed"})>>),
    ObjectExpression(<<SpreadElement(e)>>),
    ObjectExpression(<<Property(NumberLiteral("1"), e, {}), MethodProperty>>),
    ObjectExpression(<<Property(NumberLiteral("1"), CallExpression, {}), Property(NumberLiteral("2"), e, {})>>),
    ObjectExpression(<<Property(Identifier("k"), e, {}), ShorthandProperty>>) }

\* how many array, object and conditional expressions enclose the innermost node of n
RECURSIVE Nesting(_)
Nesting(n) ==
  LET below == {Nesting(n.kids[i]) : i \in DOMAIN n.kids}
      deepest == IF below = {} THEN 0 ELSE CHOOSE d \in below : \A c \in below : c <= d
  IN deepest + (IF n.type \in {"ArrayExpression", "ObjectExpression", "ConditionalExpression"} THEN 1 ELSE 0)

\* :class="e" in the template of component A
ClassBinding(e) == VAttr(TRUE, "bind", VIdentifier("class"), "VExpressionContainer", e, "A")

AttributeKeys ==
  { <<FALSE, "class", NoArgument>>,
    <<TRUE, "bind", VIdentifier("class")>>,
    <<TRUE, "bind", VIdentifier("cls")>>,
    <<TRUE, "bind", VIdentifier("clsName")>>,
    <<TRUE, "bind", VIdentifier("id")>>,
    <<TRUE, "bind", NoArgument>>,
    <<TRUE, "bind", VExpressionContainer>>,
    <<TRUE, "on", VIdentifier("class")>> }

SampleExpressions ==
  { Identifier("active"), Identifier("cond"), StringLiteral("active"),
    Member("$props", "active"), Member("$attrs", "cond"),
    ArrayExpression(<<Identifier("active"), Identifier("cond")>>),
    ConditionalExpression(Identifier("cond"), Identifier("active"), StringLiteral("")) }

\* the attributes of the templates of both components
Attributes ==
  { VAttr(k[1], k[2], k[3], v[1], v[2], s) :
      k \in AttributeKeys,
      v \in {<<"null", NullElement>>, <<"VLiteral", NullElement>>, <<"VExpressionContainer", NullElement>>}
              \cup {<<"VExpressionContainer", e>> : e \in SampleExpressions},
      s \in Scopes }

----------------------------------------------------------------------------
(* The rule's state machine *)

\* create(context) and withProps up to its return
Init ==
  /\ \E classAttrNames \in ClassAttrNameLists : names = createNames(classAttrNames)
  /\ allowConditional \in BOOLEAN
  /\ allowProps \in BOOLEAN
  /\ propNames = <<"class">>
  /\ declared = [s \in Scopes |-> {}]
  /\ attribute = NoAttribute
  /\ reports = <<>>

\* variant: the items are put in front of the list (unshift)
push_Unshift(list, items) == items \o list

\* list.push(...items)
push(list, items) == list \o items

\* the names a callback declares for its component
declare(scope, props) == [declared EXCEPT ![scope] = @ \cup {stringPropNames(props)[i] : i \in DOMAIN stringPropNames(props)}]

\* defineScriptSetupVisitor's callback for the defineProps() of component scope
OnDefinePropsEnter(scope, props) ==
  /\ allowProps
  /\ Len(propNames) + Len(stringPropNames(props)) <= 1 + MaxProps
  /\ propNames' = push(propNames, stringPropNames(props))
  /\ declared' = declare(scope, props)
  /\ attribute' = NoAttribute
  /\ reports' = <<>>
  /\ UNCHANGED <<names, allowConditional, allowProps>>

\* defineVueVisitor's callback for the options object of component scope
OnVueObjectEnter(scope, props) ==
  /\ allowProps
  /\ Len(propNames) + Len(stringPropNames(props)) <= 1 + MaxProps
  /\ propNames' = push(propNames, stringPropNames(props))
  /\ declared' = declare(scope, props)
  /\ attribute' = NoAttribute
  /\ reports' = <<>>
  /\ UNCHANGED <<names, allowConditional, allowProps>>

\* the template body visitor's VAttribute handler
VAttribute(node) ==
  /\ attribute' = node
  /\ reports' = IF getName(node) = Null \/ ~isSatisfyList(names, getName(node)[1])
                  THEN <<>>
                  ELSE reportDynamic(node, propNames)
  /\ UNCHANGED <<names, allowConditional, allowProps, propNames, declared>>

Next ==
  \/ \E scope \in Scopes, props \in PropLists : OnDefinePropsEnter(scope, props)
  \/ \E scope \in Scopes, props \in PropLists : OnVueObjectEnter(scope, props)
  \/ \E node \in Attributes : VAttribute(node)

Spec == Init /\ [][Next]_vars

\* The classifier alone: a pass over component A whose props are collected
\* (none, or "active") and whose template holds :class bindings, the
\* expression of each holding that of the binding before it one level down,
\* so that every expression nested at most MaxDepth levels is classified.
InitClassify ==
  /\ names = createNames(<<>>)
  /\ allowConditional \in BOOLEAN
  /\ allowProps \in BOOLEAN
  /\ propNames = IF allowProps THEN <<"class", "active">> ELSE <<"class">>
  /\ declared = [s \in Scopes |-> IF allowProps /\ s = "A" THEN {"active"} ELSE {}]
  /\ attribute = NoAttribute
  /\ reports = <<>>

NextClassify ==
  \/ /\ attribute = NoAttribute
     /\ \E e \in Leaves : VAttribute(ClassBinding(e))
  \/ /\ attribute # NoAttribute
     /\ Nesting(attribute.value.expression) < MaxDepth
     /\ \E e \in Wrap(attribute.value.expression) : VAttribute(ClassBinding(e))

SpecClassify == InitClassify /\ [][NextClassify]_vars

----------------------------------------------------------------------------
(* Vocabulary of the properties *)

\* the VAttribute handler last run classified a bound expression
Classified ==
  /\ attribute # NoAttribute
  /\ getName(attribute) # Null
  /\ isSatisfyList(names, getName(attribute)[1])
  /\ attribute.value.type = "VExpressionContainer"
  /\ attribute.value.expression.type # "null"

bound == attribute.value.expression

IsPrefix(p, q) == Len(p) <= Len(q) /\ SubSeq(q, 1, Len(p)) = p

\* how many reports are located at the node at path p
Count(p) == Cardinality({i \in DOMAIN reports : reports[i] = p})

\* the reports located at or inside the node at path p, in emission order
ReportsUnder(p) == SelectSeq(reports, LAMBDA r : IsPrefix(p, r))

IsLiteralShape(n) == n.type \in {"ArrayExpression", "ObjectExpression"}

\* a property whose key is static: shorthand, or a non-computed identifier or
\* string-literal key, and no method
StaticProperty(property) ==
  /\ property.type = "Property"
  /\ "method" \notin property.flags
  /\ \/ "shorthand" \in property.flags
     \/ /\ "computed" \notin property.flags
        /\ \/ property.kids[1].type = "Identifier"
           \/ property.kids[1].type = "Literal" /\ "string" \in property.kids[1].flags

\* a property whose value is inspected: no spread, shorthand, computed key or
\* method, and a key that is neither an identifier nor a string literal
OtherKeyProperty(property) ==
  /\ property.type = "Property"
  /\ property.flags = {}
  /\ property.kids[1].type # "Identifier"
  /\ ~(property.kids[1].type = "Literal" /\ "string" \in property.kids[1].flags)

\* The paths of the nodes the walk reaches: the bound expression, array
\* elements, the array or object literal a spread holds, both branches of a
\* conditional when conditionals are allowed and, with objects = TRUE, the
\* values of the properties of an object literal whose key is not static.
RECURSIVE Walked(_, _, _)
Walked(n, loc, objects) ==
  LET ofSpread(i) ==
        IF IsLiteralShape(n.kids[i].kids[1]) /\ (objects \/ n.kids[i].kids[1].type = "ArrayExpression")
          THEN Walked(n.kids[i].kids[1], loc \o <<i, 1>>, objects)
          ELSE {}
      ofElement(i) ==
        IF n.kids[i].type = "null" THEN {}
        ELSE IF n.kids[i].type = "SpreadElement" THEN ofSpread(i)
        ELSE Walked(n.kids[i], loc \o <<i>>, objects)
      ofProperty(i) ==
        IF n.kids[i].type = "SpreadElement" THEN ofSpread(i)
        ELSE IF OtherKeyProperty(n.kids[i]) THEN Walked(n.kids[i].kids[2], loc \o <<i, 2>>, objects)
        ELSE {}
  IN {loc} \cup
     (IF n.type = "ArrayExpression" THEN UNION {ofElement(i) : i \in DOMAIN n.kids}
      ELSE IF n.type = "ObjectExpression" /\ objects THEN UNION {ofProperty(i) : i \in DOMAIN n.kids}
      ELSE IF n.type = "ConditionalExpression" /\ allowConditional
        THEN Walked(n.kids[2], loc \o <<2>>, objects) \cup Walked(n.kids[3], loc \o <<3>>, objects)
      ELSE {})

IsUnlistedIdentifier(n) == n.type = "Identifier" /\ ~Includes(propNames, n.name)

----------------------------------------------------------------------------
(* C3 *)

\* C3: every identifier outside AllowedNameSet that is the bound expression or
\* is nested through array elements, spread array literals and (when allowed)
\* conditional branches is reported exactly once, at its own location.
C3_UnlistedIdentifierReportedOnce ==
  Classified =>
    \A p \in Walked(bound, <<>>, FALSE) :
      IsUnlistedIdentifier(NodeAt(bound, p)) => Count(p) = 1

\* an unlisted identifier three levels down, below a spread array literal
C3_Witness ==
  /\ Classified
  /\ \E p \in Walked(bound, <<>>, FALSE) :
       /\ Len(p) >= 3
       /\ IsUnlistedIdentifier(NodeAt(bound, p))
       /\ NodeAt(bound, <<p[1]>>).type = "SpreadElement"

----------------------------------------------------------------------------
(* C1 *)

SimpleConditional(n) ==
  /\ n.type = "ConditionalExpression"
  /\ n.kids[2].type = "Literal" /\ "string" \in n.kids[2].flags
  /\ n.kids[3].type = "Literal" /\ "string" \in n.kids[3].flags

\* C1 as stated: with conditionals allowed, a conditional bound to the
\* attribute whose test is an identifier outside AllowedNameSet and whose
\* branches are string literals emits exactly one report, located at the test.
C1_TestReported ==
  (Classified /\ allowConditional /\ SimpleConditional(bound) /\ IsUnlistedIdentifier(bound.kids[1]))
    => reports = << <<1>> >>

\* C1, amended: with conditionals allowed, the test of a conditional the walk
\* reaches is never inspected: no report is located at or inside it, whether
\* or not it is an identifier of AllowedNameSet, and a conditional whose
\* branches are string literals emits no report at all.
C1_TestNotInspected ==
  (Classified /\ allowConditional) =>
    \A p \in Walked(bound, <<>>, TRUE) :
      NodeAt(bound, p).type = "ConditionalExpression" =>
        /\ ReportsUnder(p \o <<1>>) = <<>>
        /\ SimpleConditional(NodeAt(bound, p)) => ReportsUnder(p) = <<>>

\* cond ? "active" : "" classified with AllowedNameSet = ["class", "active"]
C1_Witness ==
  /\ Classified
  /\ allowConditional
  /\ propNames = <<"class", "active">>
  /\ bound = ConditionalExpression(Identifier("cond"), StringLiteral("active"), StringLiteral(""))

----------------------------------------------------------------------------
(* C4 *)

\* C4: an object literal all of whose properties have a static key (shorthand,
\* identifier key or string-literal key, no method) emits no report, whatever
\* the property values are, for every AllowedNameSet and allowConditional.
C4_StaticKeysNeverReported ==
  Classified =>
    \A p \in Paths(bound) :
      LET object == NodeAt(bound, p)
      IN (object.type = "ObjectExpression" /\ \A i \in DOMAIN object.kids : StaticProperty(object.kids[i]))
           => ReportsUnder(p) = <<>>

\* { k: { [k]: f() } }-like: a static key whose value is an object with a
\* computed key, classified as the bound expression
C4_Witness ==
  /\ Classified
  /\ bound.type = "ObjectExpression"
  /\ \A i \in DOMAIN bound.kids : StaticProperty(bound.kids[i])
  /\ \E i \in DOMAIN bound.kids :
       /\ "shorthand" \notin bound.kids[i].flags
       /\ bound.kids[i].kids[2].type = "ObjectExpression"
       /\ "computed" \in bound.kids[i].kids[2].kids[1].flags

----------------------------------------------------------------------------
(* C5 *)

SpreadReports(literal, p, i) ==
  LET argument == literal.kids[i].kids[1]
  IN IF argument.type = "ArrayExpression" THEN reportDynamicInArray(argument, propNames, p \o <<i, 1>>)
     ELSE IF argument.type = "ObjectExpression" THEN reportDynamicInObject(argument, propNames, p \o <<i, 1>>)
     ELSE << p \o <<i, 1>> >>

----------------------------------------------------------------------------
(* C6 *)

\* C6: with allowConditional = false, every conditional the walk reaches as a
\* value emits exactly one report, located at the whole conditional, and none
\* at or inside its branches.
C6_ConditionalReportedWhole ==
  (Classified /\ ~allowConditional) =>
    \A p \in Walked(bound, <<>>, TRUE) :
      NodeAt(bound, p).type = "ConditionalExpression" => ReportsUnder(p) = <<p>>

\* a nested conditional whose consequent would be reported on its own
C6_Witness ==
  /\ Classified
  /\ ~allowConditional
  /\ \E p \in Walked(bound, <<>>, TRUE) :
       /\ Len(p) >= 1
       /\ NodeAt(bound, p).type = "ConditionalExpression"
       /\ NodeAt(bound, p).kids[2].type \in {"CallExpression", "ArrayExpression"}

----------------------------------------------------------------------------
(* C8 *)

----------------------------------------------------------------------------
(* C9 *)

\* the first index at which paths p and q differ (neither is a prefix of the other)
Divergence(p, q) == CHOOSE d \in 1..Len(p) : d <= Len(q) /\ p[d] # q[d] /\ SubSeq(p, 1, d - 1) = SubSeq(q, 1, d - 1)

Overlap(p, q) == IsPrefix(p, q) \/ IsPrefix(q, p)

\* the node at p starts before the node at q in the source text
SourceBefore(p, q) ==
  \/ IsPrefix(p, q) /\ p # q
  \/ ~Overlap(p, q) /\ p[Divergence(p, q)] < q[Divergence(p, q)]

\* the walk visits the node at p before the node at q: in source order, but
\* the alternate of a conditional before its consequent
WalkBefore(root, p, q) ==
  /\ ~Overlap(p, q)
  /\ LET d == Divergence(p, q)
     IN IF NodeAt(root, SubSeq(p, 1, d - 1)).type = "ConditionalExpression"
          THEN p[d] > q[d]
          ELSE p[d] < q[d]

\* C9 as stated: the reports of one bound expression are emitted in source
\* order; every report of a consequent precedes every report of its alternate.
C9_SourceOrder ==
  Classified => \A i, j \in DOMAIN reports : i < j => SourceBefore(reports[i], reports[j])

\* C9, amended: the reports of one bound expression are emitted in the order
\* of the walk, which is source order except that every report of a
\* conditional's alternate precedes every report of its consequent; no
\* reported node lies inside another.
C9_WalkOrder ==
  Classified => \A i, j \in DOMAIN reports : i < j => WalkBefore(bound, reports[i], reports[j])

\* reports from both branches of a conditional and from two elements of an array
C9_Witness ==
  /\ Classified
  /\ allowConditional
  /\ \E i, j, k \in DOMAIN reports :
       /\ i < j /\ i # k /\ ~Overlap(reports[i], reports[j]) /\ ~Overlap(reports[i], reports[k])
       /\ NodeAt(bound, SubSeq(reports[i], 1, Divergence(reports[i], reports[j]) - 1)).type = "ConditionalExpression"
       /\ NodeAt(bound, SubSeq(reports[i], 1, Divergence(reports[i], reports[k]) - 1)).type = "ArrayExpression"

----------------------------------------------------------------------------
(* C10 *)

IsBag(member) == member.kids[1].type = "Identifier" /\ member.kids[1].name \in {"$props", "$attrs"}

\* the property name a member access names in the source: x of o.x and of o[x],
\* "x" of o["x"]
AccessedName(member) ==
  IF member.kids[2].type = "Identifier" \/ (member.kids[2].type = "Literal" /\ "string" \in member.kids[2].flags)
    THEN <<member.kids[2].name>>
    ELSE Null

----------------------------------------------------------------------------
(* C2 *)

\* the names declared by another component and not by the component of the
\* attribute last visited
DeclaredElsewhereOnly ==
  (UNION {declared[s] : s \in Scopes \ {attribute.scope}}) \ (declared[attribute.scope] \cup {"class"})

NamesProp(n, x) ==
  \/ n.type = "Identifier" /\ n.name = x
  \/ n.type = "MemberExpression" /\ IsBag(n) /\ n.kids[2].type = "Identifier" /\ n.kids[2].name = x

\* C2: a property name declared only in another component is not in the
\* AllowedNameSet an attribute of this component is classified with, and an
\* identifier or $props / $attrs member of that name bound to a watched
\* attribute of this component is reported.
C2_NoLeakAcrossScopes ==
  Classified =>
    \A x \in DeclaredElsewhereOnly :
      /\ ~Includes(propNames, x)
      /\ NamesProp(bound, x) => reports = << <<>> >>

----------------------------------------------------------------------------
(* C7 *)

\* C7: in every state "class" is in MatchNameList and is the first entry of
\* AllowedNameSet, for every configuration; MatchNameList never changes and
\* AllowedNameSet only grows at its end.
C7_ClassFirstAppendOnly ==
  /\ [](Includes(names, "class") /\ Len(propNames) >= 1 /\ propNames[1] = "class")
  /\ [][names' = names /\ IsPrefix(propNames, propNames')]_vars

\* a configuration without "class", after two names were collected
C7_Witness ==
  /\ names = <<"cls", "class">>
  /\ propNames = <<"class", "active", "cond">>
  /\ attribute # NoAttribute

====
